---- MODULE Spec2Model ----
(***************************************************************************)
(* State-machine model of src/src/components/AddressAutocomplete.tsx:      *)
(* the AddressAutoComplete widget (host state address/searchInput, the     *)
(* widget's selectedPlaceId/isLocating/isOpen), the useDebounce hook, the  *)
(* two useSWR hooks over SWR's one process-wide cache, the location        *)
(* detection pipeline and the memoized Google Maps script loader.          *)
(*                                                                         *)
(* One action is one event-loop task: a DOM event handler, a timer, a      *)
(* promise settlement or a browser callback, followed by the React render  *)
(* and the effects that render schedules (operator Render).                *)
(***************************************************************************)
EXTENDS Naturals, Sequences, FiniteSets, TLC

(***************************************************************************)
(* Bounds of the model.                                                    *)
(***************************************************************************)
\* pending onBlur timeouts that may coexist
MaxBlurTimers == 1
\* provider calls (predictions / details) made in one behaviour of Spec
MaxCalls == 2
\* provider calls made in one behaviour of TracedSpec
MaxCallsTraced == 3

(***************************************************************************)
(* Strings of the model.                                                   *)
(***************************************************************************)
\* useSWR(null, ...): the falsy key; the code maps "" to null
NoKey == ""
\* place ids the provider knows
PlaceIds == {"p1", "p2"}
\* non-empty texts the user types; "p1" is a text that equals a place id
Typed == {"a", "p1"}
\* the one text typed in the behaviours that keep history or assume fairness
TypedShort == {"a"}
\* prediction.description of a place
Description(p) == IF p = "p1" THEN "d1" ELSE "d2"
\* formatted_address of a place
Formatted(p) == IF p = "p1" THEN "f1" ELSE ""
\* every string that can become an SWR key
Keys == (Typed \cup PlaceIds \cup {Description(p) : p \in PlaceIds}
              \cup {Formatted(p) : p \in PlaceIds}) \ {NoKey}

(***************************************************************************)
(* AddressType and emptyAddress.                                           *)
(***************************************************************************)
emptyAddress ==
  [address1 |-> "", address2 |-> "", formattedAddress |-> "", city |-> "",
   region |-> "", postalCode |-> "", country |-> "", lat |-> 0, lng |-> 0]

(***************************************************************************)
(* Provider responses (google.maps.places.PlaceResult).  A missing         *)
(* address_components is the empty list, a missing formatted_address is "" *)
(* and a missing geometry is 0/0: the code maps undefined to the same      *)
(* defaults ("if (!components) return ''", "|| ''", "|| 0").               *)
(***************************************************************************)
Component(type, long, short) ==
  [types |-> {type}, long_name |-> long, short_name |-> short]

FullComponents(p) ==
  << Component("street_number", "1", "1"),
     Component("route", "Main Street", "Main St"),
     Component("locality", IF p = "p1" THEN "c1" ELSE "c2", "c"),
     Component("administrative_area_level_1", "California", "CA"),
     Component("postal_code", "94043", "94043"),
     Component("country", "United States", "US") >>

\* the components of a place that is a town, not a street address: no
\* street_number, no route, no postal_code
TownComponents(p) ==
  SelectSeq(FullComponents(p),
            LAMBDA c : c.types \cap {"street_number", "route", "postal_code"} = {})

\* What the provider knows: p1 is a complete place, p2 is a town whose
\* result carries no formatted_address.
PlaceResult(p) ==
  [address_components |-> IF p = "p1" THEN FullComponents(p) ELSE TownComponents(p),
   formatted_address |-> Formatted(p),
   lat |-> IF p = "p1" THEN 1 ELSE 2, lng |-> 1]

\* predictions.predictions of a successful getPlacePredictions({input})
Predictions(input) ==
  IF input \in {"a", Description("p1")} THEN << "p1" >> ELSE << >>

(***************************************************************************)
(* getAddressComponent                                                     *)
(***************************************************************************)
getAddressComponent(components, type, format) ==
  LET hits == {i \in 1..Len(components) : type \in components[i].types}
  IN  IF hits = {} THEN ""
      ELSE LET first == CHOOSE i \in hits : \A j \in hits : i <= j
           IN  IF format = "long_name" THEN components[first].long_name
                                       ELSE components[first].short_name

\* the SWR fetcher of the detail hook, after fetchPlaceDetails resolved
BuildAddress(result) ==
  [address1 |-> getAddressComponent(result.address_components, "street_number", "short_name")
                \o " " \o
                getAddressComponent(result.address_components, "route", "short_name"),
   address2 |-> "",
   formattedAddress |-> result.formatted_address,
   city |-> getAddressComponent(result.address_components, "locality", "long_name"),
   region |-> getAddressComponent(result.address_components, "administrative_area_level_1", "short_name"),
   postalCode |-> getAddressComponent(result.address_components, "postal_code", "short_name"),
   country |-> getAddressComponent(result.address_components, "country", "long_name"),
   lat |-> result.lat,
   lng |-> result.lng]

(***************************************************************************)
(* Values of SWR's cache: undefined, the suggestion fetcher's object or    *)
(* the detail fetcher's object, named by the input they were computed for. *)
(***************************************************************************)
Undefined == [kind |-> "undefined", of |-> ""]
\* { suggestions: predictions.predictions.map(...) } computed for `input`
SuggestionsData(input) == [kind |-> "suggestions", of |-> input]
\* { address } built from the details of place p
AddressData(p) == [kind |-> "address", of |-> p]
\* data?.suggestions || []
SuggestionsOf(data) ==
  IF data.kind = "suggestions" THEN Predictions(data.of) ELSE << >>
\* data.address
AddressOf(data) == BuildAddress(PlaceResult(data.of))

VARIABLES
  address,          \* host state: AddressType
  searchInput,      \* host state: string
  selectedPlaceId,  \* useState("")
  isLocating,       \* useState(false)
  isOpen,           \* useState(false)
  debouncedValue,   \* useDebounce's state ("" while the input is unmounted)
  timer,            \* useDebounce's pending setTimeout
  focused,          \* the rendered <input> has the DOM focus
  blurTimers,       \* pending setTimeout(() => setIsOpen(false), 200)
  geo,              \* handleLocationDetect's pipeline: idle, acquiring, geocoding
  geoSupported,     \* navigator.geolocation is defined
  googleMaps,       \* googleMapsPromise / window.google: loading, ready, failed
  loader,           \* googleMapsPromise (serial number of the promise, 0 for null),
                    \* the script elements inserted, the promises callers were handed
  cache,            \* SWR cache: key -> data (the hooks read no error)
  FETCH,            \* SWR FETCH: key -> none, sugg, detail (pending, by hook), settled
  retry,            \* keys with a pending onErrorRetry timer
  inflight,         \* provider calls outstanding, per key
  joined,           \* keys whose pending call a later request was deduplicated into
  nCalls,           \* provider calls made so far
  callLimit,        \* provider calls this behaviour may make
  typable,          \* the non-empty texts the user types in this behaviour
  traced,           \* whether this behaviour keeps the history below
  watchLoader,      \* whether this behaviour keeps callsIn
  callsIn,          \* history: the states of googleMaps in which loadGoogleMapsScript
                    \* was called after construction
  burst,            \* history: the current run of quick input changes
  lastAct,          \* history: the user's most recent action
  idFresh,          \* history: no user action since the resolution that set selectedPlaceId began
  note              \* history: the task just run, for the tasks claims speak of

vars == << address, searchInput, selectedPlaceId, isLocating, isOpen,
           debouncedValue, timer, focused, blurTimers, geo, geoSupported,
           googleMaps, loader, callsIn, watchLoader, cache, FETCH, retry, inflight, joined, nCalls, callLimit,
           typable, traced, burst, lastAct, idFresh, note >>

\* the variables no task of the widget writes
env == << geoSupported, callLimit, typable, traced, watchLoader >>

(***************************************************************************)
(* Derived values of a render.                                             *)
(***************************************************************************)
\* address.formattedAddress ? <committed input> : <AddressAutoCompleteInput>
InputMounted == address.formattedAddress = ""
Committed == address.formattedAddress # ""

\* DataOf as a hook that keeps whichever suggestions arrived, whatever their
\* key: C2's formula must fail with it
DataOfAnyResponse(c, k) ==
  IF k = NoKey THEN Undefined
  ELSE IF \E j \in Keys : c[j].kind = "suggestions" /\ j # k
    THEN c[CHOOSE j \in Keys : c[j].kind = "suggestions" /\ j # k]
  ELSE c[k]

\* useSWR returning the address stored under another key when there is one:
\* C14's formula must fail with it
DataOfAnyAddress(c, k) ==
  IF k = NoKey THEN Undefined
  ELSE IF \E j \in Keys : c[j].kind = "address" /\ j # k
    THEN c[CHOOSE j \in Keys : c[j].kind = "address" /\ j # k]
  ELSE c[k]

\* useSWR(key): the data of the current key, undefined for the null key
DataOf(c, k) == IF k = NoKey THEN Undefined ELSE c[k]

\* const { data } = useSWR(selectedPlaceId === "" ? null : selectedPlaceId, ...)
detailData == DataOf(cache, selectedPlaceId)
\* const { data } = useSWR(debouncedSearchInput ? debouncedSearchInput : null, ...)
suggestData == DataOf(cache, debouncedValue)
\* const predictions = data?.suggestions || []
predictions == SuggestionsOf(suggestData)
\* isLoading of the suggestion hook: a request is running and there is no data yet
isSuggestionsLoading ==
  /\ debouncedValue # NoKey
  /\ FETCH[debouncedValue] \in {"sugg", "detail"}
  /\ suggestData.kind = "undefined"

\* the value of the rendered <input>: searchInput || address?.formattedAddress
\* in the committed view, searchInput in AddressAutoCompleteInput
InputValue(adr, si) ==
  IF adr.formattedAddress # ""
    THEN (IF si # "" THEN si ELSE adr.formattedAddress)
    ELSE si

\* the list AddressAutoCompleteInput renders below the input for the hook's
\* data and isLoading: nothing while closed, the spinner, the predictions,
\* or one of the two messages
ListView(data, loading) ==
  IF ~isOpen THEN "closed"
  ELSE IF loading THEN "spinner"
  ELSE IF SuggestionsOf(data) # << >> THEN "predictions"
  ELSE IF searchInput = "" THEN "Please enter an address"
  ELSE "No address found"

(***************************************************************************)
(* SWR                                                                     *)
(***************************************************************************)
\* the inline message "Select a valid address from the list", with
\* showInlineError left at its default, true
InlineError(si, opn, sid) == si # "" /\ ~opn /\ sid = ""

Swr == [cache |-> cache, FETCH |-> FETCH, retry |-> retry,
        inflight |-> inflight, joined |-> joined, nCalls |-> nCalls]

\* StartRequest without the reuse of a pending request: C4's formula must
\* fail with it
StartRequestNoDedupe(s, k, who) ==
  IF k = NoKey \/ s.FETCH[k] = "settled" THEN s
  ELSE IF googleMaps = "ready"
    THEN [s EXCEPT !.FETCH[k] = who, !.inflight[k] = @ + 1, !.nCalls = @ + 1]
  ELSE [s EXCEPT !.retry = @ \cup {k}]

\* StartRequest whose fetcher reaches the provider whether or not the script
\* has loaded: C20's formula must fail with it
StartRequestUnguarded(s, k, who) ==
  IF k = NoKey THEN s
  ELSE IF s.FETCH[k] # "none"
    THEN IF s.FETCH[k] = "settled" THEN s ELSE [s EXCEPT !.joined = @ \cup {k}]
  ELSE [s EXCEPT !.FETCH[k] = who, !.inflight[k] = @ + 1, !.nCalls = @ + 1]

\* revalidate(WITH_DEDUPE) of hook `who` for key k: a request already in
\* FETCH is reused; a fetcher that runs before the script has loaded throws
\* ("google is not defined"), and SWR schedules its retry.
StartRequest(s, k, who) ==
  IF k = NoKey THEN s
  ELSE IF s.FETCH[k] # "none"
    THEN IF s.FETCH[k] = "settled" THEN s ELSE [s EXCEPT !.joined = @ \cup {k}]
  ELSE IF googleMaps = "ready"
    THEN [s EXCEPT !.FETCH[k] = who, !.inflight[k] = @ + 1, !.nCalls = @ + 1]
  ELSE [s EXCEPT !.retry = @ \cup {k}]

(***************************************************************************)
(* History variables (no state of the program), kept when traced.          *)
(*   burst: open from a change of the suggestion input until a debounce    *)
(*     timer armed at or after that change fires, so that while it is open *)
(*     less than 500 ms may have passed since the change; last is the      *)
(*     value of that change; early is a value of the run that the          *)
(*     suggestion hook was given as its key while the run was open.        *)
(*   lastAct: "none", the place selected, "locate" or "other".             *)
(***************************************************************************)
NoBurst == [open |-> FALSE, last |-> "", early |-> ""]

\* the actions of the user that start or reset a resolution
UserActions == {"change", "committedChange", "select", "clear", "locate"}
\* the tasks note records
Noted == {"positionError", "locateUnsupported", "detailsReject", "lateSuggestions",
          "lateDetails",
          "predictionsReject"}

(***************************************************************************)
(* The render that follows a task, with its effects:                       *)
(*   - the detail hook's key is selectedPlaceId; a changed key revalidates *)
(*   - useEffect([data]): if (data?.address) setAddress(data.address)      *)
(*   - address.formattedAddress picks the committed input or               *)
(*     AddressAutoCompleteInput, which mounts with debouncedValue =        *)
(*     searchInput and an armed timer, and unmounts clearing the timer     *)
(*   - a changed searchInput re-arms the timer                             *)
(*   - the suggestion hook's key is debouncedValue; a changed key or a     *)
(*     mount revalidates                                                   *)
(* si, sid, adr, opn, deb, tmr, foc, s are the values the task left and ev *)
(* names the task.                                                         *)
(***************************************************************************)
\* useEffect(() => { if (data?.address) setAddress(data.address) }, [data, setAddress])
DataEffect(oldData, newData, adr) ==
  IF newData # oldData /\ newData.kind = "address" THEN AddressOf(newData) ELSE adr

\* useDebounce's useState(value) when AddressAutoCompleteInput mounts
DebounceOnMount(si) == si

RenderResult(si, sid, adr, opn, deb, tmr, foc, s, ev) ==
  LET adr2 == DataEffect(detailData, DataOf(s.cache, sid), adr)
      wasMounted == InputMounted
      isMounted == adr2.formattedAddress = ""
      deb2 == IF isMounted THEN (IF wasMounted THEN deb ELSE DebounceOnMount(si))
              ELSE ""
      tmr2 == IF ~isMounted THEN FALSE
              ELSE IF ~wasMounted THEN TRUE
              ELSE IF si # searchInput THEN TRUE ELSE tmr
      foc2 == IF isMounted = wasMounted THEN foc ELSE FALSE
      suggStart == isMounted /\ (~wasMounted \/ deb2 # debouncedValue)
      s1 == IF suggStart THEN StartRequest(s, deb2, "sugg") ELSE s
      s3 == IF sid # selectedPlaceId THEN StartRequest(s1, sid, "detail") ELSE s1
      \* a retry timer whose key no mounted hook has does nothing when it fires
      s2 == [s3 EXCEPT !.retry = {k \in @ : k = sid \/ (isMounted /\ k = deb2)}]
      b0 == IF ev = "fire" THEN NoBurst
            ELSE IF ev \in {"change", "select"}
              THEN [open |-> TRUE, last |-> si, early |-> burst.early]
            ELSE burst
      b1 == IF isMounted /\ ~wasMounted /\ b0.open /\ deb2 # NoKey /\ deb2 = b0.last
              THEN [b0 EXCEPT !.early = deb2]
              ELSE b0
      la == IF ev = "select" THEN sid
            ELSE IF ev = "locate" THEN "locate"
            ELSE IF ev \in UserActions THEN "other"
            ELSE lastAct
      if == IF sid = "" THEN FALSE
            ELSE IF ev = "select" THEN TRUE
            ELSE IF ev = "geocodeMatch"
              THEN lastAct = "locate" \/ (idFresh /\ sid = selectedPlaceId)
            ELSE IF ev \in UserActions THEN FALSE
            ELSE idFresh
  IN  [address |-> adr2, searchInput |-> si, selectedPlaceId |-> sid,
       isOpen |-> opn, debouncedValue |-> deb2, timer |-> tmr2,
       focused |-> foc2, swr |-> s2,
       burst |-> IF traced THEN b1 ELSE burst,
       lastAct |-> IF traced THEN la ELSE lastAct,
       idFresh |-> IF traced THEN if ELSE idFresh,
       note |-> IF ev \in Noted THEN ev ELSE ""]

Render(si, sid, adr, opn, deb, tmr, foc, s, ev) ==
  \E r \in {RenderResult(si, sid, adr, opn, deb, tmr, foc, s, ev)} :
      /\ r.swr.nCalls <= callLimit
      /\ address' = r.address
      /\ searchInput' = r.searchInput
      /\ selectedPlaceId' = r.selectedPlaceId
      /\ isOpen' = r.isOpen
      /\ debouncedValue' = r.debouncedValue
      /\ timer' = r.timer
      /\ focused' = r.focused
      /\ cache' = r.swr.cache
      /\ FETCH' = r.swr.FETCH
      /\ retry' = r.swr.retry
      /\ inflight' = r.swr.inflight
      /\ joined' = r.swr.joined
      /\ nCalls' = r.swr.nCalls
      /\ burst' = r.burst
      /\ lastAct' = r.lastAct
      /\ idFresh' = r.idFresh
      /\ note' = r.note

\* a task that changes only React state of the widget
Setting(si, sid, adr, opn, foc, ev) ==
  Render(si, sid, adr, opn, debouncedValue, timer, foc, Swr, ev)

\* a task that changes no React state of the widget
Rerender(ev) ==
  Setting(searchInput, selectedPlaceId, address, isOpen, focused, ev)

(***************************************************************************)
(* loadGoogleMapsScript on g = [status, promise, scripts, handed]: status  *)
(* is "absent" before any script was asked for, then googleMaps' value.    *)
(***************************************************************************)
\* loadGoogleMapsScript that forgets a rejected promise and loads again:
\* C13's formula must fail with it
loadGoogleMapsScriptAgain(g) ==
  IF g.promise # 0 /\ g.status # "failed"
    THEN [g EXCEPT !.handed = @ \cup {g.promise}]
    ELSE [status |-> "loading", promise |-> g.promise + 1,
          scripts |-> g.scripts + 1, handed |-> g.handed \cup {g.promise + 1}]

loadGoogleMapsScript(g) ==
  IF g.promise # 0
    \* if (googleMapsPromise) return googleMapsPromise
    THEN [g EXCEPT !.handed = @ \cup {g.promise}]
  ELSE IF g.status = "ready"
    \* if (window.google?.maps) { resolve(window.google); return }
    THEN [g EXCEPT !.promise = 1, !.handed = @ \cup {1}]
    \* document.head.appendChild(script)
    ELSE [status |-> "loading", promise |-> 1,
          scripts |-> g.scripts + 1, handed |-> g.handed \cup {1}]

\* the loader's state as loadGoogleMapsScript finds it
Loader == [status |-> googleMaps, promise |-> loader.promise,
           scripts |-> loader.scripts, handed |-> loader.handed]

(***************************************************************************)
(* Initial state: App mounts the widget with the empty address and "";     *)
(* the mount effect has called loadGoogleMapsScript.                       *)
(***************************************************************************)
\* W: what window.google is when the first component mounts
InitWidget(W) ==
  /\ address = emptyAddress
  /\ searchInput = ""
  /\ selectedPlaceId = ""
  /\ isLocating = FALSE
  /\ isOpen = FALSE
  /\ debouncedValue = ""
  /\ timer = TRUE
  /\ focused = FALSE
  /\ blurTimers = 0
  /\ geo = "idle"
  /\ geoSupported \in BOOLEAN
  /\ \E w \in W :
        LET g == loadGoogleMapsScript(
                   [status |-> w, promise |-> 0, scripts |-> 0, handed |-> {}])
        IN  /\ googleMaps = g.status
            /\ loader = [promise |-> g.promise, scripts |-> g.scripts,
                         handed |-> g.handed]
  /\ callsIn = {}
  /\ cache = [k \in Keys |-> Undefined]
  /\ FETCH = [k \in Keys |-> "none"]
  /\ retry = {}
  /\ inflight = [k \in Keys |-> 0]
  /\ joined = {}
  /\ nCalls = 0
  /\ burst = NoBurst
  /\ lastAct = "none"
  /\ idFresh = FALSE
  /\ note = ""

Init ==
  /\ InitWidget({"absent"}) /\ callLimit = MaxCalls /\ typable = Typed
  /\ traced = FALSE /\ watchLoader = FALSE
InitTraced ==
  /\ InitWidget({"absent"}) /\ callLimit = MaxCallsTraced /\ typable = TypedShort
  /\ traced = TRUE /\ watchLoader = FALSE
InitFair ==
  /\ InitWidget({"absent"}) /\ callLimit = MaxCalls /\ typable = TypedShort
  /\ traced = FALSE /\ watchLoader = FALSE
InitLoader ==
  /\ InitWidget({"absent", "ready"}) /\ callLimit = MaxCalls /\ typable = TypedShort
  /\ traced = FALSE /\ watchLoader = TRUE


(***************************************************************************)
(* Events of AddressAutoCompleteInput's <input>.  A click outside the      *)
(* input (a prediction, the locate button) is preceded by the input's      *)
(* blur, so those handlers run with the input not focused.                 *)
(***************************************************************************)
\* onFocus={() => setIsOpen(true)}
InputFocus ==
  /\ InputMounted /\ ~focused
  /\ Setting(searchInput, selectedPlaceId, address, TRUE, TRUE, "focus")
  /\ UNCHANGED << isLocating, blurTimers, geo, googleMaps, loader, callsIn, env >>

\* onBlur={() => setTimeout(() => setIsOpen(false), 200)}
InputBlur ==
  /\ InputMounted /\ focused
  /\ blurTimers < MaxBlurTimers
  /\ blurTimers' = blurTimers + 1
  /\ Setting(searchInput, selectedPlaceId, address, isOpen, FALSE, "blur")
  /\ UNCHANGED << isLocating, geo, googleMaps, loader, callsIn, env >>

\* the timeout of onBlur fires: setIsOpen(false); nothing ever clears it
BlurTimerFire ==
  /\ blurTimers > 0
  /\ blurTimers' = blurTimers - 1
  /\ Setting(searchInput, selectedPlaceId, address, FALSE, focused, "blurTimer")
  /\ UNCHANGED << isLocating, geo, googleMaps, loader, callsIn, env >>

\* onKeyDown={e => e.key === "Escape" && setIsOpen(false)}
InputEscape ==
  /\ InputMounted /\ focused /\ isOpen
  /\ Setting(searchInput, selectedPlaceId, address, FALSE, focused, "escape")
  /\ UNCHANGED << isLocating, blurTimers, geo, googleMaps, loader, callsIn, env >>

\* onChange={e => setSearchInput(e.target.value)}
InputChange(v) ==
  /\ InputMounted /\ focused
  /\ v # searchInput
  /\ Setting(v, selectedPlaceId, address, isOpen, focused, "change")
  /\ UNCHANGED << isLocating, blurTimers, geo, googleMaps, loader, callsIn, env >>

\* onClick of a rendered prediction (the list is open and not loading):
\* setSearchInput(text); setSelectedPlaceId(place); setIsOpen(false)
SelectPrediction(p) ==
  /\ InputMounted /\ ~focused
  /\ isOpen /\ ~isSuggestionsLoading
  /\ \E i \in 1..Len(predictions) : predictions[i] = p
  /\ Setting(Description(p), p, address, FALSE, focused, "select")
  /\ UNCHANGED << isLocating, blurTimers, geo, googleMaps, loader, callsIn, env >>

(***************************************************************************)
(* useDebounce: the timeout fires, setDebouncedValue(value).               *)
(***************************************************************************)
DebounceFire ==
  /\ timer
  /\ Render(searchInput, selectedPlaceId, address, isOpen, searchInput, FALSE,
            focused, Swr, "fire")
  /\ UNCHANGED << isLocating, blurTimers, geo, googleMaps, loader, callsIn, env >>

(***************************************************************************)
(* Events of the committed view.                                           *)
(***************************************************************************)
\* onFocus: if (!searchInput) setSearchInput(address.formattedAddress); setIsOpen(true)
CommittedFocus ==
  /\ Committed /\ ~focused
  /\ Setting(IF searchInput = "" THEN address.formattedAddress ELSE searchInput,
             selectedPlaceId, address, TRUE, TRUE, "committedFocus")
  /\ UNCHANGED << isLocating, blurTimers, geo, googleMaps, loader, callsIn, env >>

\* the committed input has no onBlur handler
CommittedBlur ==
  /\ Committed /\ focused
  /\ Setting(searchInput, selectedPlaceId, address, isOpen, FALSE, "committedBlur")
  /\ UNCHANGED << isLocating, blurTimers, geo, googleMaps, loader, callsIn, env >>

\* onChange: setSearchInput(v); if (!v) { setSelectedPlaceId(""); setAddress(emptyAddress) }
CommittedChange(v) ==
  /\ Committed /\ focused
  /\ v # searchInput
  /\ IF v = ""
       THEN Setting(v, "", emptyAddress, isOpen, focused, "committedChange")
       ELSE Setting(v, selectedPlaceId, address, isOpen, focused, "committedChange")
  /\ UNCHANGED << isLocating, blurTimers, geo, googleMaps, loader, callsIn, env >>

\* the clear button: setSelectedPlaceId(""); setAddress(emptyAddress); setSearchInput("")
ClearClick ==
  /\ Committed
  /\ Setting("", "", emptyAddress, isOpen, FALSE, "clear")
  /\ UNCHANGED << isLocating, blurTimers, geo, googleMaps, loader, callsIn, env >>

(***************************************************************************)
(* handleLocationDetect                                                    *)
(***************************************************************************)
\* the locate button (disabled while isLocating) where navigator.geolocation
\* is missing: console.warn and return
LocateUnsupported ==
  /\ InputMounted /\ ~focused /\ ~isLocating
  /\ ~geoSupported
  /\ Rerender("locateUnsupported")
  /\ UNCHANGED << isLocating, blurTimers, geo, googleMaps, loader, callsIn, env >>

\* setIsLocating(true); navigator.geolocation.getCurrentPosition(...)
LocateClick ==
  /\ InputMounted /\ ~focused /\ ~isLocating
  /\ geoSupported
  /\ geo = "idle"
  /\ isLocating' = TRUE
  /\ geo' = "acquiring"
  /\ Rerender("locate")
  /\ UNCHANGED << blurTimers, googleMaps, loader, callsIn, env >>

\* PositionError with an error callback that leaves isLocating alone: C10's
\* formula must fail with it
PositionErrorStillLocating ==
  /\ geo = "acquiring"
  /\ isLocating' = isLocating
  /\ geo' = "idle"
  /\ Rerender("positionError")
  /\ UNCHANGED << blurTimers, googleMaps, loader, callsIn, env >>

\* the error callback: setIsLocating(false)
PositionError ==
  /\ geo = "acquiring"
  /\ isLocating' = FALSE
  /\ geo' = "idle"
  /\ Rerender("positionError")
  /\ UNCHANGED << blurTimers, googleMaps, loader, callsIn, env >>

\* the success callback up to its await; before the script has loaded
\* new google.maps.Geocoder() throws: catch logs, finally setIsLocating(false)
PositionSuccess ==
  /\ geo = "acquiring"
  /\ IF googleMaps = "ready"
       THEN geo' = "geocoding" /\ isLocating' = isLocating
            /\ Rerender("positionSuccess")
       ELSE geo' = "idle" /\ isLocating' = FALSE
            /\ Rerender("geocodeThrow")
  /\ UNCHANGED << blurTimers, googleMaps, loader, callsIn, env >>

\* geocode resolved with results[0].place_id = p:
\* setSelectedPlaceId(p); onLocationDetect; finally setIsLocating(false)
GeocodeMatch(p) ==
  /\ geo = "geocoding"
  /\ isLocating' = FALSE
  /\ geo' = "idle"
  /\ Setting(searchInput, p, address, isOpen, focused, "geocodeMatch")
  /\ UNCHANGED << blurTimers, googleMaps, loader, callsIn, env >>

\* geocode resolved with no results: finally setIsLocating(false)
GeocodeNoMatch ==
  /\ geo = "geocoding"
  /\ isLocating' = FALSE
  /\ geo' = "idle"
  /\ Rerender("geocodeNoMatch")
  /\ UNCHANGED << blurTimers, googleMaps, loader, callsIn, env >>

\* GeocodeThrow without the finally block: C9's formula must fail with it
GeocodeThrowNoFinally ==
  /\ geo = "geocoding"
  /\ isLocating' = isLocating
  /\ geo' = "idle"
  /\ Rerender("geocodeThrow")
  /\ UNCHANGED << blurTimers, googleMaps, loader, callsIn, env >>

\* geocode rejected: catch logs, finally setIsLocating(false)
GeocodeThrow ==
  /\ geo = "geocoding"
  /\ isLocating' = FALSE
  /\ geo' = "idle"
  /\ Rerender("geocodeThrow")
  /\ UNCHANGED << blurTimers, googleMaps, loader, callsIn, env >>

(***************************************************************************)
(* loadGoogleMapsScript: the inserted script loads or fails.               *)
(***************************************************************************)
ScriptLoad ==
  /\ googleMaps = "loading"
  /\ googleMaps' = "ready"
  /\ note' = ""
  /\ UNCHANGED << address, searchInput, selectedPlaceId, isLocating, isOpen,
                  debouncedValue, timer, focused, blurTimers, geo,
                  cache, FETCH, retry, inflight, joined, nCalls, env,
                  loader, callsIn, burst, lastAct, idFresh >>

ScriptError ==
  /\ googleMaps = "loading"
  /\ googleMaps' = "failed"
  /\ note' = ""
  /\ UNCHANGED << address, searchInput, selectedPlaceId, isLocating, isOpen,
                  debouncedValue, timer, focused, blurTimers, geo,
                  cache, FETCH, retry, inflight, joined, nCalls, env,
                  loader, callsIn, burst, lastAct, idFresh >>

\* the mount effect of another AddressAutoComplete, or this one's effect run
\* again for a new apiKey: void loadGoogleMapsScript(apiKey)
LoadCall ==
  /\ \E g \in {loadGoogleMapsScript(Loader)} :
       /\ googleMaps' = g.status
       /\ loader' = [promise |-> g.promise, scripts |-> g.scripts,
                     handed |-> g.handed]
  /\ callsIn' = IF watchLoader THEN callsIn \cup {googleMaps} ELSE callsIn
  /\ note' = ""
  /\ UNCHANGED << address, searchInput, selectedPlaceId, isLocating, isOpen,
                  debouncedValue, timer, focused, blurTimers, geo,
                  cache, FETCH, retry, inflight, joined, nCalls, env,
                  burst, lastAct, idFresh >>

(***************************************************************************)
(* Settlement of the provider calls SWR is waiting for.                    *)
(***************************************************************************)
\* SWR stores a fetcher's value under the request's key and keeps the
\* request in FETCH for the deduping interval
Fulfil(k, data, ev) ==
  LET s == [Swr EXCEPT !.cache[k] = data,
                       !.FETCH[k] = "settled",
                       !.inflight[k] = @ - 1,
                       !.joined = @ \ {k}]
  IN  Render(searchInput, selectedPlaceId, address, isOpen, debouncedValue,
             timer, focused, s, ev)

\* SWR on a rejected fetcher: the key's data is kept, the request leaves
\* FETCH, and onErrorRetry is scheduled if the hook that started the
\* request still has the key
Reject(k, ev) ==
  LET current == \/ FETCH[k] = "detail" /\ selectedPlaceId = k
                 \/ FETCH[k] = "sugg" /\ InputMounted /\ debouncedValue = k
      s == [Swr EXCEPT !.FETCH[k] = "none",
                       !.inflight[k] = @ - 1,
                       !.joined = @ \ {k},
                       !.retry = IF current THEN @ \cup {k} ELSE @]
  IN  Render(searchInput, selectedPlaceId, address, isOpen, debouncedValue,
             timer, focused, s, ev)

\* getPlacePredictions resolved: the fetcher returns { suggestions }
PredictionsResolve(k) ==
  /\ FETCH[k] = "sugg" /\ inflight[k] > 0
  /\ Fulfil(k, SuggestionsData(k),
            IF InputMounted /\ debouncedValue # k THEN "lateSuggestions" ELSE "fulfil")
  /\ UNCHANGED << isLocating, blurTimers, geo, googleMaps, loader, callsIn, env >>

\* getPlacePredictions rejected
PredictionsReject(k) ==
  /\ FETCH[k] = "sugg" /\ inflight[k] > 0
  /\ Reject(k, "predictionsReject")
  /\ UNCHANGED << isLocating, blurTimers, geo, googleMaps, loader, callsIn, env >>

\* fetchPlaceDetails resolving whatever the status: C7's formula must fail
\* with it
fetchPlaceDetailsAnyStatus(statusOK, hasResult) == "resolve"

\* what fetchPlaceDetails does with getDetails' (result, status)
fetchPlaceDetails(statusOK, hasResult) ==
  IF ~statusOK \/ ~hasResult THEN "reject" ELSE "resolve"

\* the detail fetcher: await fetchPlaceDetails(placeId), then { address }
DetailFetcher(placeId, statusOK, hasResult) ==
  IF fetchPlaceDetails(statusOK, hasResult) = "reject"
    THEN [throws |-> TRUE, data |-> Undefined]
    ELSE [throws |-> FALSE, data |-> AddressData(placeId)]

\* getDetails calls back
DetailsCallback(k, statusOK, hasResult) ==
  /\ FETCH[k] = "detail" /\ inflight[k] > 0
  /\ \E r \in {DetailFetcher(k, statusOK, hasResult)} :
       IF r.throws THEN Reject(k, "detailsReject")
       ELSE Fulfil(k, r.data,
                   IF selectedPlaceId \notin {NoKey, k} THEN "lateDetails" ELSE "fulfil")
  /\ UNCHANGED << isLocating, blurTimers, geo, googleMaps, loader, callsIn, env >>

\* with status OK and a result
DetailsResolve(k) == DetailsCallback(k, TRUE, TRUE)

\* with a status other than OK (the result is then null)
DetailsReject(k) == DetailsCallback(k, FALSE, FALSE)

\* the deduping interval of a settled request ends
DedupeExpire(k) ==
  /\ FETCH[k] = "settled"
  /\ FETCH' = [FETCH EXCEPT ![k] = "none"]
  /\ note' = ""
  /\ UNCHANGED << address, searchInput, selectedPlaceId, isLocating, isOpen,
                  debouncedValue, timer, focused, blurTimers, geo,
                  googleMaps, cache, retry, inflight, joined, nCalls, env,
                  loader, callsIn, burst, lastAct, idFresh >>

\* SWR's onErrorRetry timer fires: a hook mounted with the key revalidates
RetryFire(k) ==
  /\ k \in retry
  /\ LET s == [Swr EXCEPT !.retry = @ \ {k}]
         hooks == {w \in {"sugg", "detail"} :
                     \/ w = "detail" /\ selectedPlaceId = k
                     \/ w = "sugg" /\ InputMounted /\ debouncedValue = k}
     IN  \E w \in hooks :
            Render(searchInput, selectedPlaceId, address, isOpen,
                   debouncedValue, timer, focused, StartRequest(s, k, w), "retry")
  /\ UNCHANGED << isLocating, blurTimers, geo, googleMaps, loader, callsIn, env >>

Next ==
  \/ InputFocus
  \/ InputBlur
  \/ BlurTimerFire
  \/ InputEscape
  \/ \E v \in typable \cup {""} : InputChange(v)
  \/ \E p \in PlaceIds : SelectPrediction(p)
  \/ DebounceFire
  \/ CommittedFocus
  \/ CommittedBlur
  \/ \E v \in typable \cup {""} : CommittedChange(v)
  \/ ClearClick
  \/ LocateUnsupported
  \/ LocateClick
  \/ PositionError
  \/ PositionSuccess
  \/ \E p \in PlaceIds : GeocodeMatch(p)
  \/ GeocodeNoMatch
  \/ GeocodeThrow
  \/ LoadCall
  \/ ScriptLoad
  \/ ScriptError
  \/ \E k \in Keys : PredictionsResolve(k)
  \/ \E k \in Keys : PredictionsReject(k)
  \/ \E k \in Keys : DetailsResolve(k)
  \/ \E k \in Keys : DetailsReject(k)
  \/ \E k \in Keys : DedupeExpire(k)
  \/ \E k \in Keys : RetryFire(k)

Spec == Init /\ [][Next]_vars
LoaderSpec == InitLoader /\ [][Next]_vars
TracedSpec == InitTraced /\ [][Next]_vars

(***************************************************************************)
(* Fairness: the browser calls one of getCurrentPosition's callbacks, and  *)
(* the geocode promise that handleLocationDetect awaits settles.  While    *)
(* the promise is pending GeocodeNoMatch and GeocodeThrow stay enabled and *)
(* every settlement, a match too, ends the pending state, so weak fairness *)
(* of these two is the condition that the promise settles.                 *)
(***************************************************************************)
PositionCallback == PositionError \/ PositionSuccess
GeocodeSettles == GeocodeNoMatch \/ GeocodeThrow

FairSpec ==
  /\ InitFair
  /\ [][Next]_vars
  /\ WF_vars(PositionCallback)
  /\ WF_vars(GeocodeSettles)

(***************************************************************************)
(* Properties                                                              *)
(***************************************************************************)

\* C1: in a run of changes of the suggestion input, each less than 500 ms
\* after the one before, no value but the last is given to the Suggestion
\* Resolver: a value the hook was given inside the run is the run's last.
C1_OnlyLastValueSubmitted ==
  (burst.open /\ burst.early # "") => burst.early = burst.last

\* C2: with overlapping suggestion lookups, in whatever order the responses
\* arrive, the suggestions shown are those computed for the current
\* (most recently issued) query, never those of another query.
C2_ShownSuggestionsAreCurrent ==
  (InputMounted /\ suggestData.kind = "suggestions")
    => /\ suggestData = SuggestionsData(debouncedValue)
       /\ predictions = Predictions(debouncedValue)

\* C2 witness: the response of a superseded query has just arrived while the
\* input shows the suggestions of the newer one.
C2_LateResponseArrived ==
  /\ note = "lateSuggestions"
  /\ InputMounted
  /\ suggestData.kind = "suggestions"

\* C3: the Address is never set by a resolution started before the user's
\* most recent action: whenever a step sets the Address to something other
\* than the empty record, the identifier it was resolved for was set by the
\* user's most recent action.
C3_NoStaleResolutionApplied ==
  [][(address' # address /\ address' # emptyAddress) => idFresh']_vars

\* C4: a request for a key whose call is still pending makes no second
\* provider call, and the hooks holding one key read one result.
C4_OneCallPerKey ==
  /\ \A k \in Keys : inflight[k] <= 1
  /\ \A k \in joined : inflight[k] = 1
  /\ (InputMounted /\ debouncedValue = selectedPlaceId) => suggestData = detailData

\* C4 witness: the suggestion hook, back on a query whose call is still
\* pending, joined that call.
C4_RequestJoined ==
  \E k \in joined :
     /\ inflight[k] = 1 /\ FETCH[k] = "sugg"
     /\ InputMounted /\ debouncedValue = k /\ selectedPlaceId # k

\* C5: deleting all text in either input, or the clear control, leaves the
\* Address the empty record and the identifier ""; the clear control leaves
\* the search text "" too.
C5_ClearResets ==
  [][/\ (InputChange("") \/ CommittedChange("") \/ ClearClick)
          => (address' = emptyAddress /\ selectedPlaceId' = "")
     /\ ClearClick => searchInput' = ""]_vars

\* C6: selecting a prediction closes the list and sets the identifier at
\* once, and when the details of the selected place resolve with no action
\* of the user in between, the widget is Committed with the address
\* resolved for that place.
C6_SelectionCommits ==
  [][\A p \in PlaceIds :
        /\ SelectPrediction(p) => (~isOpen' /\ selectedPlaceId' = p)
        /\ (lastAct = p /\ DetailsResolve(p))
              => (Committed' /\ address' = AddressOf(AddressData(p)))]_vars

\* C7: a detail lookup that fails (a status other than OK, or no result)
\* leaves the Address as it was, and a widget that was Suggesting stays so.
C7_FailedLookupKeepsAddress ==
  [][(\E k \in PlaceIds : DetailsReject(k))
        => (address' = address /\ (InputMounted => InputMounted'))]_vars

\* C7 witness: a detail lookup has just failed while the suggestion input
\* is shown.
C7_LookupFailed ==
  /\ note = "detailsReject"
  /\ InputMounted
  /\ selectedPlaceId # ""

\* C8: the Address is the empty record or has every location-derived field
\* populated, with a non-empty formattedAddress.
FullyPopulated(a) ==
  /\ a.address1 # "" /\ a.city # "" /\ a.region # ""
  /\ a.postalCode # "" /\ a.country # ""
  /\ a.formattedAddress # ""

C8_NoPartialAddress ==
  address = emptyAddress \/ FullyPopulated(address)

\* C9: a location detection that set isLocating sets it back to false.
C9_LocatingEnds == isLocating ~> ~isLocating

\* C9 witness: a detection is running with isLocating set.
C9_Locating == isLocating /\ geo = "geocoding"

\* C10: a detection that fails for lack of geolocation or by the position
\* error callback leaves the Address, the identifier, the search text and
\* the list's open state as they were, with isLocating false.
C10_FailedDetectionFrame ==
  [][(PositionError \/ LocateUnsupported)
        => /\ address' = address
           /\ selectedPlaceId' = selectedPlaceId
           /\ searchInput' = searchInput
           /\ isOpen' = isOpen
           /\ ~isLocating']_vars

\* C10 witness: the position error callback has just run with the list
\* still open.
C10_DetectionFailed ==
  /\ note = "positionError"
  /\ isOpen
  /\ ~isLocating

\* C11: after a failed suggestion lookup the consumer sees a state that
\* differs from the one after a lookup that returned no predictions: with
\* the list open, what is rendered after the failure is not what is
\* rendered for an empty result.
EmptyResult == SuggestionsData(NoKey)

C11_FailureDistinguishable ==
  (note = "predictionsReject" /\ InputMounted /\ isOpen
     /\ debouncedValue # NoKey /\ FETCH[debouncedValue] = "none"
     /\ debouncedValue \in retry /\ suggestData.kind = "undefined")
    => ListView(suggestData, isSuggestionsLoading) # ListView(EmptyResult, FALSE)

\* C12: whenever a resolution commits an Address, from a selection or from
\* location detection, the text shown in the field is that Address's
\* formattedAddress.
C12_TextMirrorsCommitted ==
  [][(address' # address /\ Committed')
        => InputValue(address', searchInput') = address'.formattedAddress]_vars

\* C13: however many times and in whatever state loadGoogleMapsScript is
\* called, also while the load is pending and after it failed, at most one
\* script element is ever inserted and every caller is handed the same
\* promise, hence the same outcome.
C13_OneLoad ==
  /\ loader.scripts <= 1
  /\ Cardinality(loader.handed) <= 1

\* C13 witness: the loader was called again while the script was loading and
\* again after the load had failed.
C13_CalledAgain ==
  /\ {"loading", "failed"} \subseteq callsIn
  /\ googleMaps = "failed"

\* C14: the Address is only ever set from the detail response of the
\* identifier selected at that moment: whenever a step sets the Address to
\* something other than the empty record, it is the address resolved for the
\* identifier the step ends with, whatever the order the responses came in.
C14_OnlyCurrentIdentifierApplied ==
  [][(address' # address /\ address' # emptyAddress)
        => address' = AddressOf(AddressData(selectedPlaceId'))]_vars

\* C14 witness: the response for a superseded identifier arrived after the
\* response for the current one, and the Address is the current one's.
C14_SupersededArrivedLast ==
  /\ note = "lateDetails"
  /\ cache[selectedPlaceId].kind = "address"
  /\ \E k \in PlaceIds \ {selectedPlaceId} : cache[k].kind = "address"
  /\ address = AddressOf(AddressData(selectedPlaceId))

\* C15: in every address the detail fetcher built, a field whose source
\* component the response lacks has the default value; addressLine1 is the
\* empty string when the response has neither a street number nor a route.
HasComponent(result, type) ==
  \E i \in 1..Len(result.address_components) :
    type \in result.address_components[i].types

C15_MissingFieldsDefault ==
  \A k \in Keys :
    cache[k].kind = "address" =>
      LET result == PlaceResult(cache[k].of)
          a == AddressOf(cache[k])
      IN  /\ (~HasComponent(result, "street_number") /\ ~HasComponent(result, "route"))
                => a.address1 = ""
          /\ ~HasComponent(result, "locality") => a.city = ""
          /\ ~HasComponent(result, "administrative_area_level_1") => a.region = ""
          /\ ~HasComponent(result, "postal_code") => a.postalCode = ""
          /\ ~HasComponent(result, "country") => a.country = ""
          /\ result.formatted_address = "" => a.formattedAddress = ""

\* C16: the two hooks never read each other's results: the Detail Resolver's
\* data is undefined or a detail result, and the Suggestion Resolver's data
\* is undefined or a suggestion result, also when a query equals an
\* identifier.
C16_SeparateCaches ==
  /\ detailData.kind \in {"undefined", "address"}
  /\ InputMounted => suggestData.kind \in {"undefined", "suggestions"}

\* C17: while the suggestion input is mounted with its list closed and a
\* non-empty text that is not a description chosen from the list, the inline
\* validation message is shown.
ChosenTexts == {Description(p) : p \in PlaceIds}

C17_InlineErrorShown ==
  (InputMounted /\ ~isOpen /\ searchInput # "" /\ searchInput \notin ChosenTexts)
    => InlineError(searchInput, isOpen, selectedPlaceId)

\* C18: focusing the committed input leaves the search text equal to the
\* committed Address's formattedAddress, and leaves the Address and the
\* identifier as they were.
C18_FocusReseeds ==
  [][CommittedFocus
       => /\ searchInput' = address.formattedAddress
          /\ address' = address
          /\ selectedPlaceId' = selectedPlaceId]_vars

\* C19: after a suggestion or detail lookup was rejected by the provider, the
\* next step, when it is not an action of the user, makes no provider call:
\* the retry SWR scheduled for the failed key issues none.
C19_NoAutomaticRetry ==
  [][\A k \in Keys :
        (note \in {"predictionsReject", "detailsReject"} /\ RetryFire(k))
          => nCalls' = nCalls]_vars

C21_GraceTimerSparesReopenedList ==
  [][(BlurTimerFire /\ InputMounted /\ focused /\ isOpen) => isOpen']_vars

====
